---------------------------- MODULE Spec2Model ----------------------------
(***************************************************************************)
(* Octo-Vision keyword scanner (src/scanner.py, class KeywordScanner) and  *)
(* the parts of the dashboard (src/app.py) that drive it.                  *)
(*                                                                         *)
(* Strings are sequences of one-character strings, so that they can be     *)
(* indexed, sliced, stripped and case-folded the way the Python code does. *)
(* Offsets into a text are 0-based, as in Python; Slice converts to the     *)
(* 1-based sequences of TLA+.                                              *)
(***************************************************************************)
EXTENDS Integers, Sequences, FiniteSets, TLC

VARIABLES
    pc,             \* position of the caller in the operation under analysis
    keywords,       \* KeywordScanner.keywords
    case_sensitive, \* KeywordScanner.case_sensitive
    csv_content,    \* argument of load_keywords_from_csv (the uploaded file)
    text,           \* argument of scan_text
    texts,          \* argument of scan_multiple_texts
    result,         \* what the last call returned
    error           \* message of the ValueError the last call raised, or NoError

vars == <<pc, keywords, case_sensitive, csv_content, text, texts,
          result, error>>

-----------------------------------------------------------------------------
(* Characters and Python's str helpers                                     *)

NL == "\n"
BOM == "BOM"    \* U+FEFF, one character

Max(a, b) == IF a >= b THEN a ELSE b
Min(a, b) == IF a <= b THEN a ELSE b

\* str.isspace() for one character (the whitespace of the model's alphabets)
IsSpace(c) == c \in {" ", NL, "\t"}

\* str.lower() / re.IGNORECASE folding of one character
LowerChar(c) ==
    CASE c = "A" -> "a"
      [] c = "B" -> "b"
      [] c = "X" -> "x"
      [] OTHER -> c

\* code point order of the characters, for sorted() on strings
Ord(c) ==
    CASE c = "\t" -> 9
      [] c = NL -> 10
      [] c = " " -> 32
      [] c = "," -> 44
      [] c = "." -> 46
      [] c = "A" -> 65
      [] c = "B" -> 66
      [] c = "X" -> 88
      [] c = "a" -> 97
      [] c = "b" -> 98
      [] c = "x" -> 120
      [] OTHER -> 65279

\* str.strip(): the part of s from its first to its last non-whitespace
\* character
Strip(s) ==
    IF \A i \in 1..Len(s) : IsSpace(s[i]) THEN <<>>
    ELSE SubSeq(s,
            CHOOSE i \in 1..Len(s) :
                ~IsSpace(s[i]) /\ \A j \in 1..(i - 1) : IsSpace(s[j]),
            CHOOSE i \in 1..Len(s) :
                ~IsSpace(s[i]) /\ \A j \in (i + 1)..Len(s) : IsSpace(s[j]))

\* str.replace('\n', ' ')
ReplaceNewlines(s) == [i \in 1..Len(s) |-> IF s[i] = NL THEN " " ELSE s[i]]

\* one bound of a Python slice: a negative index counts from the end, and the
\* result is clamped to 0..len
SliceIndex(i, n) == IF i < 0 THEN Max(0, i + n) ELSE Min(i, n)

\* s[start:end]
Slice(s, start, end) ==
    SubSeq(s, SliceIndex(start, Len(s)) + 1, SliceIndex(end, Len(s)))

\* [k.strip() for k in ks if k.strip()]
RECURSIVE StripAll(_)
StripAll(ks) ==
    IF ks = <<>> THEN <<>>
    ELSE IF Strip(Head(ks)) # <<>> THEN <<Strip(Head(ks))>> \o StripAll(Tail(ks))
    ELSE StripAll(Tail(ks))

\* a < b for two strings, as Python compares them
RECURSIVE StrLess(_, _)
StrLess(a, b) ==
    IF b = <<>> THEN FALSE
    ELSE IF a = <<>> THEN TRUE
    ELSE IF Head(a) # Head(b) THEN Ord(Head(a)) < Ord(Head(b))
    ELSE StrLess(Tail(a), Tail(b))

\* the set listed in descending order
RECURSIVE SortedDescending(_)
SortedDescending(S) ==
    IF S = {} THEN <<>>
    ELSE LET m == CHOOSE x \in S : \A y \in S \ {x} : StrLess(y, x)
         IN  <<m>> \o SortedDescending(S \ {m})

\* sorted(list(S)) for a set of strings
RECURSIVE Sorted(_)
Sorted(S) ==
    IF S = {} THEN <<>>
    ELSE LET m == CHOOSE x \in S : \A y \in S \ {x} : StrLess(x, y)
         IN  <<m>> \o Sorted(S \ {m})

-----------------------------------------------------------------------------
(* scan_text                                                               *)

ContextChars == 50
MaxDetails == 3

Ellipsis == <<".", ".", ".">>

\* the zero-value result with matches_found set
ZeroResultFound ==
    [matches_found |-> TRUE,
     matched_keywords |-> <<>>,
     match_count |-> 0,
     total_occurrences |-> 0,
     match_details |-> <<>>]

ZeroResult ==
    [matches_found |-> FALSE,
     matched_keywords |-> <<>>,
     match_count |-> 0,
     total_occurrences |-> 0,
     match_details |-> <<>>]

\* the comparison with the case flag ignored: always folded
CharMatchesFolded(p, c, cs) == LowerChar(p) = LowerChar(c)

\* one character of the pattern against one of the text: flags = 0 compares
\* exactly, re.IGNORECASE compares the folded characters
CharMatches(p, c, cs) == IF cs THEN p = c ELSE LowerChar(p) = LowerChar(c)

\* the compiled pattern re.escape(keyword) matches text at offset pos
MatchesAt(t, keyword, cs, pos) ==
    /\ pos + Len(keyword) <= Len(t)
    /\ \A i \in 1..Len(keyword) : CharMatches(keyword[i], t[pos + i], cs)

\* the scan resuming one character after the start of each match, so that
\* overlapping matches are yielded too
RECURSIVE ScanFromOverlapping(_, _, _)
ScanFromOverlapping(found, width, from) ==
    LET ahead == {p \in found : p >= from}
    IN  IF ahead = {} THEN <<>>
        ELSE LET m == CHOOSE p \in ahead : \A q \in ahead : p <= q
             IN  <<m>> \o ScanFromOverlapping(found, width, m + 1)

\* the scan of finditer from offset from on, over the set found of offsets at
\* which the pattern matches: the leftmost match at or after from is yielded
\* and the scan resumes at its end
RECURSIVE ScanFrom(_, _, _)
ScanFrom(found, width, from) ==
    LET ahead == {p \in found : p >= from}
    IN  IF ahead = {} THEN <<>>
        ELSE LET m == CHOOSE p \in ahead : \A q \in ahead : p <= q
             IN  <<m>> \o ScanFrom(found, width, m + width)

\* list(pattern.finditer(text)): the start offsets of the leftmost
\* non-overlapping matches
FindIter(t, keyword, cs) ==
    ScanFrom({p \in 0..Len(t) : MatchesAt(t, keyword, cs, p)}, Len(keyword), 0)

\* matches[:3]
FirstMatches(matches) == SubSeq(matches, 1, Min(Len(matches), MaxDetails))

\* the start of the context without the clamp to 0
ContextStartUnclamped(mstart) == mstart - ContextChars

ContextStart(mstart) == Max(0, mstart - ContextChars)

ContextEnd(t, mend) == Min(Len(t), mend + ContextChars)

CleanContext(s) == Strip(ReplaceNewlines(s))

\* the dict with the position counted from the start of the context
MatchDetailInContext(t, keyword, mstart) ==
    LET start == ContextStart(mstart)
        end == ContextEnd(t, mstart + Len(keyword))
        context == CleanContext(Slice(t, start, end))
    IN  [keyword |-> keyword,
         position |-> mstart - start,
         context |-> Ellipsis \o context \o Ellipsis]

\* the dict appended for one match
MatchDetail(t, keyword, mstart) ==
    LET start == ContextStart(mstart)
        end == ContextEnd(t, mstart + Len(keyword))
        context == CleanContext(Slice(t, start, end))
    IN  [keyword |-> keyword,
         position |-> mstart,
         context |-> Ellipsis \o context \o Ellipsis]

\* the body of the loop for one keyword, applied to the accumulators.  The
\* except branch (lines 128-165) is not taken: re.escape makes every keyword
\* a valid pattern, and finditer does not raise on a str.
ScanKeyword(acc, t, keyword, cs) ==
    LET matches == FindIter(t, keyword, cs)
        shown == FirstMatches(matches)
    IN  IF matches # <<>>
        THEN [matched |-> acc.matched \cup {keyword},
              total |-> acc.total + Len(matches),
              details |-> acc.details \o
                  [i \in 1..Len(shown) |-> MatchDetail(t, keyword, shown[i])]]
        ELSE acc

\* for keyword in self.keywords
RECURSIVE ScanLoop(_, _, _, _)
ScanLoop(acc, t, ks, cs) ==
    IF ks = <<>> THEN acc
    ELSE ScanLoop(ScanKeyword(acc, t, Head(ks), cs), t, Tail(ks), cs)

\* the result with the occurrences counted as match_count
ScanTextCountingOccurrences(t, ks, cs) ==
    IF t = <<>> \/ ks = <<>> THEN ZeroResult
    ELSE LET acc == ScanLoop([matched |-> {}, total |-> 0, details |-> <<>>],
                             t, ks, cs)
         IN  [matches_found |-> Cardinality(acc.matched) > 0,
              matched_keywords |-> Sorted(acc.matched),
              match_count |-> acc.total,
              total_occurrences |-> acc.total,
              match_details |-> acc.details]

ScanText(t, ks, cs) ==
    IF t = <<>> \/ ks = <<>> THEN ZeroResult
    ELSE LET acc == ScanLoop([matched |-> {}, total |-> 0, details |-> <<>>],
                             t, ks, cs)
         IN  [matches_found |-> Cardinality(acc.matched) > 0,
              matched_keywords |-> Sorted(acc.matched),
              match_count |-> Cardinality(acc.matched),
              total_occurrences |-> acc.total,
              match_details |-> acc.details]

\* a scan that stores the case-folded keywords back in the scanner
ScanTextCallFoldingInPlace(t, ks, cs) ==
    [result |-> ScanText(t, ks, cs),
     keywords |-> IF cs THEN ks
                  ELSE [i \in DOMAIN ks |->
                           [j \in DOMAIN ks[i] |-> LowerChar(ks[i][j])]],
     case_sensitive |-> cs,
     text |-> t]

\* the call scan_text(t) on a scanner holding ks and cs: the value returned
\* and the objects the call could reach, as they are when it returns.  The
\* body reads self.keywords and self.case_sensitive and assigns neither; the
\* folded or compiled forms of the text and of a keyword are locals.
ScanTextCall(t, ks, cs) ==
    [result |-> ScanText(t, ks, cs),
     keywords |-> ks,
     case_sensitive |-> cs,
     text |-> t]

-----------------------------------------------------------------------------
(* scan_multiple_texts                                                     *)

None == "None"

\* not d.get(key): the key is absent (get returns None) or its string empty
Falsy(d, key) == key \notin DOMAIN d \/ d[key] = <<>>

\* {**a, **b}: the keys of both, the values of b winning
Merge(a, b) ==
    [k \in DOMAIN a \cup DOMAIN b |-> IF k \in DOMAIN b THEN b[k] ELSE a[k]]

\* the skip test with the error marker ignored
SkippedOnContentOnly(text_info) == Falsy(text_info, "content")

\* 'error' in text_info or not text_info.get('content')
Skipped(text_info) ==
    \/ "error" \in DOMAIN text_info
    \/ Falsy(text_info, "content")

\* the loop over texts, results being the list built so far
RECURSIVE ScanMultipleLoop(_, _, _, _)
ScanMultipleLoop(results, ts, ks, cs) ==
    IF ts = <<>> THEN results
    ELSE LET text_info == Head(ts)
         IN  IF Skipped(text_info)
             THEN ScanMultipleLoop(results, Tail(ts), ks, cs)
             ELSE LET scan_result == ScanText(text_info.content, ks, cs)
                  IN  IF scan_result.matches_found
                      THEN ScanMultipleLoop(
                               Append(results, Merge(text_info, scan_result)),
                               Tail(ts), ks, cs)
                      ELSE ScanMultipleLoop(results, Tail(ts), ks, cs)

ScanMultipleTexts(ts, ks, cs) == ScanMultipleLoop(<<>>, ts, ks, cs)

\* the call scan_multiple_texts(ts): the list returned and the objects the
\* call could reach, as they are when it returns.  Each scan goes through
\* scan_text, and a reported record is a new dict built from text_info and
\* scan_result, so the records of ts are only read.
RECURSIVE ScanMultipleTextsCallLoop(_, _, _, _, _)
ScanMultipleTextsCallLoop(results, i, ts, ks, cs) ==
    IF i > Len(ts)
    THEN [result |-> results, texts |-> ts,
          keywords |-> ks, case_sensitive |-> cs]
    ELSE LET text_info == ts[i]
         IN  IF Skipped(text_info)
             THEN ScanMultipleTextsCallLoop(results, i + 1, ts, ks, cs)
             ELSE LET call == ScanTextCall(text_info.content, ks, cs)
                      scan_result == call.result
                  IN  ScanMultipleTextsCallLoop(
                          IF scan_result.matches_found
                          THEN Append(results, Merge(text_info, scan_result))
                          ELSE results,
                          i + 1, ts, call.keywords, call.case_sensitive)

ScanMultipleTextsCall(ts, ks, cs) ==
    ScanMultipleTextsCallLoop(<<>>, 1, ts, ks, cs)

-----------------------------------------------------------------------------
(* load_keywords_from_csv                                                  *)
(*                                                                         *)
(* pd.read_csv is called with its defaults: ',' separates fields, '\n' ends *)
(* a record, a leading byte order mark is dropped, lines that are empty or *)
(* hold only blanks are skipped, the first remaining line is the header,   *)
(* and an empty field is a missing value.  The alphabet of the inputs has  *)
(* no quote, digit or carriage return, so quoting, numeric columns and the *)
(* other record terminators are outside the model.                         *)

MsgEmpty ==
    "CSV file is empty. Please upload a file with at least one keyword."
MsgNoData ==
    "CSV file contains no data. Please add at least one keyword."
MsgNoValid ==
    "CSV file contains no valid keywords. Please check your file format."
MsgNoColumns ==
    "CSV file has no columns. Please check your file format."
MsgEmptyData ==
    "CSV file is empty or has no data. Please upload a file with at least one keyword."
MsgInvalidFormat == "CSV file format is invalid: "

NoError == "none"

\* a missing value of the frame (no string of the inputs equals it)
NaN == <<"NaN">>

\* s.split(sep) on one separator character
RECURSIVE Split(_, _)
Split(s, sep) ==
    IF \A i \in 1..Len(s) : s[i] # sep THEN <<s>>
    ELSE LET i == CHOOSE i \in 1..Len(s) :
                     s[i] = sep /\ \A j \in 1..(i - 1) : s[j] # sep
         IN  <<SubSeq(s, 1, i - 1)>> \o Split(SubSeq(s, i + 1, Len(s)), sep)

\* not s or not s.strip()
IsBlank(s) == Strip(s) = <<>>

\* the tokenizer skips a line that is empty or holds only blanks and tabs
IsRecordLine(line) == \E i \in 1..Len(line) : line[i] \notin {" ", "\t"}

\* the lines the tokenizer turns into records, each split into its fields
RecordLines(content) ==
    LET body == IF content # <<>> /\ Head(content) = BOM
                THEN Tail(content) ELSE content
        kept == SelectSeq(Split(body, NL), IsRecordLine)
    IN  [i \in 1..Len(kept) |-> Split(kept[i], ",")]

\* one data record as a row of the given width: short records are filled
\* with missing values, and an empty field is a missing value
Row(fields, width) ==
    [c \in 1..width |->
        IF c > Len(fields) \/ fields[c] = <<>> THEN NaN ELSE fields[c]]

\* pd.read_csv(StringIO(content)): the first record names the columns; the
\* first data record fixes the width of the table (at least the header's);
\* a later record with more fields is a ParserError; fields in excess of
\* the header's, at the left, are the index and not columns of the frame
ReadCsv(content) ==
    LET records == RecordLines(content)
    IN  IF records = <<>> THEN [kind |-> "EmptyDataError"]
        ELSE LET header == Len(records[1])
                 data == Tail(records)
                 width == IF data = <<>> THEN header
                          ELSE Max(header, Len(data[1]))
                 index == width - header
             IN  IF \E i \in 1..Len(data) : Len(data[i]) > width
                 THEN [kind |-> "ParserError"]
                 ELSE [kind |-> "frame",
                       columns |-> header,
                       rows |-> [i \in 1..Len(data) |->
                                    SubSeq(Row(data[i], width), index + 1, width)]]

\* df.iloc[:, 0].dropna().astype(str).tolist()
FirstColumn(df) ==
    LET column == [i \in 1..Len(df.rows) |-> df.rows[i][1]]
        Present(cell) == cell # NaN
    IN  SelectSeq(column, Present)

\* the same handler raising the message of the blank-input check for an
\* EmptyDataError
LoadKeywordsFromCsvSameMessage(csv, old) ==
    IF IsBlank(csv) THEN [keywords |-> old, error |-> MsgEmpty]
    ELSE LET df == ReadCsv(csv)
         IN  CASE df.kind = "EmptyDataError" ->
                    [keywords |-> old, error |-> MsgEmpty]
               [] df.kind = "ParserError" ->
                    [keywords |-> old, error |-> MsgInvalidFormat]
               [] OTHER ->
                    IF df.rows = <<>> \/ df.columns = 0
                    THEN [keywords |-> old, error |-> MsgNoData]
                    ELSE LET loaded == StripAll(FirstColumn(df))
                         IN  IF loaded = <<>>
                             THEN [keywords |-> loaded, error |-> MsgNoValid]
                             ELSE [keywords |-> loaded, error |-> NoError]

\* load_keywords_from_csv(csv) on a scanner whose keywords are old: the
\* keywords the scanner holds afterwards, and the message of the ValueError
\* raised, or NoError when the keywords are returned.  df.empty holds when
\* the frame has no rows or no columns, so the no-columns message (line 62)
\* is never raised; self.keywords is assigned before the no-valid-keywords
\* check.
LoadKeywordsFromCsv(csv, old) ==
    IF IsBlank(csv) THEN [keywords |-> old, error |-> MsgEmpty]
    ELSE LET df == ReadCsv(csv)
         IN  CASE df.kind = "EmptyDataError" ->
                    [keywords |-> old, error |-> MsgEmptyData]
               [] df.kind = "ParserError" ->
                    [keywords |-> old, error |-> MsgInvalidFormat]
               [] OTHER ->
                    IF df.rows = <<>> \/ df.columns = 0
                    THEN [keywords |-> old, error |-> MsgNoData]
                    ELSE LET loaded == StripAll(FirstColumn(df))
                         IN  IF loaded = <<>>
                             THEN [keywords |-> loaded, error |-> MsgNoValid]
                             ELSE [keywords |-> loaded, error |-> NoError]

-----------------------------------------------------------------------------
(* Inputs of the scanning session                                          *)

MaxKeywords == 2
MaxTextLen == 4
PadLen == 50

\* all sequences over S of length at most n
SeqsUpTo(S, n) == UNION {[1..k -> S] : k \in 0..n}

\* lines the operator may type into the keyword box, before trimming
RawKeywords == {<<"a">>, <<"A">>, <<"a", "a">>, <<" ", "a">>, <<" ">>}

RawKeywordLists == SeqsUpTo(RawKeywords, MaxKeywords)

TextAlphabet == {"a", "A", NL}
Pad(c, n) == [i \in 1..n |-> c]

\* what surrounds the body of a paste: nothing, or PadLen characters before
\* and/or after it
Paddings ==
    {<<"x", 0, 0>>, <<"x", PadLen, 0>>, <<"x", 0, PadLen>>,
     <<"x", PadLen, PadLen>>, <<NL, PadLen, PadLen>>}

\* paste bodies: a short body inside a padding, so that matches lie both
\* within and beyond ContextChars of either end of the text
Texts ==
    {Pad(pad[1], pad[2]) \o body \o Pad(pad[1], pad[3]) :
        pad \in Paddings, body \in SeqsUpTo(TextAlphabet, MaxTextLen)}

-----------------------------------------------------------------------------
(* The scanning session: keyword setup, scanner options, one scan          *)

Init ==
    /\ pc = "setup"
    /\ keywords = <<>>
    /\ case_sensitive = FALSE
    /\ csv_content = <<>>
    /\ text = <<>>
    /\ texts = <<>>
    /\ result = ZeroResult
    /\ error = NoError

\* load_keywords_from_list(raw) for the lines raw of the keyword box
LoadKeywordsFromList ==
    /\ pc = "setup"
    /\ \E raw \in RawKeywordLists : keywords' = StripAll(raw)
    /\ pc' = "options"
    /\ UNCHANGED <<case_sensitive, csv_content, text, texts, result, error>>

\* scanner.case_sensitive = the checkbox (with or without keywords entered)
SetCaseSensitive ==
    /\ pc \in {"setup", "options"}
    /\ \E b \in BOOLEAN : case_sensitive' = b
    /\ pc' = "ready"
    /\ UNCHANGED <<keywords, csv_content, text, texts, result, error>>

\* scan_text(t) for a paste body t
CallScanText ==
    /\ pc = "ready"
    /\ \E t \in Texts :
           /\ text' = t
           /\ result' = ScanText(t, keywords, case_sensitive)
    /\ pc' = "scanned"
    /\ UNCHANGED <<keywords, case_sensitive, csv_content, texts, error>>

Next ==
    \/ LoadKeywordsFromList
    \/ SetCaseSensitive
    \/ CallScanText

Spec == Init /\ [][Next]_vars

-----------------------------------------------------------------------------
(* The batch session: keyword setup, scanner options, one batch scan       *)

MaxDocs == 3

\* records as the scraper builds them (scraper.py): fetched pastes, with and
\* without a body, failed fetches carrying an error marker, and a record with
\* no content key
Documents ==
    {[id |-> "p2", title |-> "two", url |-> "u2", content |-> <<"x", NL, "A", "a">>],
     [id |-> "p3", title |-> "three", url |-> "u3", content |-> <<"x">>],
     [id |-> "p4", title |-> "four", url |-> "u4", content |-> <<>>],
     [id |-> None, title |-> "Error", url |-> "u5", content |-> <<>>,
      error |-> "timeout"],
     [id |-> "p6", title |-> "Error", url |-> "u6", content |-> <<"a">>,
      error |-> "partial"],
     [id |-> "p7", title |-> "seven", url |-> "u7"]}

DocumentLists == SeqsUpTo(Documents, MaxDocs)

\* scan_multiple_texts(ts) for a list ts of scraped records
CallScanMultipleTexts ==
    /\ pc = "ready"
    /\ \E ts \in DocumentLists :
           /\ texts' = ts
           /\ result' = ScanMultipleTexts(ts, keywords, case_sensitive)
    /\ pc' = "batched"
    /\ UNCHANGED <<keywords, case_sensitive, csv_content, text, error>>

NextBatch ==
    \/ LoadKeywordsFromList
    \/ SetCaseSensitive
    \/ CallScanMultipleTexts

SpecBatch == Init /\ [][NextBatch]_vars

-----------------------------------------------------------------------------
(* The upload session: a keyword file is uploaded and loaded               *)

MaxCsvLen == 5

CsvAlphabet == {"a", "b", " ", ",", NL, BOM}

CsvContents == SeqsUpTo(CsvAlphabet, MaxCsvLen)

\* the operator picks a file in the uploader
UploadFile ==
    /\ pc = "setup"
    /\ \E content \in CsvContents : csv_content' = content
    /\ pc' = "uploaded"
    /\ UNCHANGED <<keywords, case_sensitive, text, texts, result, error>>

\* keywords = scanner.load_keywords_from_csv(content), inside the try of the
\* dashboard: result is the list returned, unchanged when the call raises
CallLoadKeywordsFromCsv ==
    /\ pc = "uploaded"
    /\ LET out == LoadKeywordsFromCsv(csv_content, keywords)
       IN  /\ keywords' = out.keywords
           /\ error' = out.error
           /\ result' = IF out.error = NoError THEN out.keywords ELSE result
           /\ pc' = IF out.error = NoError THEN "loaded" ELSE "load_failed"
    /\ UNCHANGED <<case_sensitive, csv_content, text, texts>>

NextCsv ==
    \/ UploadFile
    \/ CallLoadKeywordsFromCsv

SpecCsv == Init /\ [][NextCsv]_vars

-----------------------------------------------------------------------------
(* The reload session: keywords are entered by hand, then a keyword file   *)
(* is uploaded to the same scanner                                         *)

\* the method is switched to Upload CSV and a file is chosen, the scanner
\* of the session still holding the keywords entered before
UploadReplacement ==
    /\ pc = "options"
    /\ \E content \in CsvContents : csv_content' = content
    /\ pc' = "uploaded"
    /\ UNCHANGED <<keywords, case_sensitive, text, texts, result, error>>

NextReload ==
    \/ LoadKeywordsFromList
    \/ UploadReplacement
    \/ CallLoadKeywordsFromCsv

SpecReload == Init /\ [][NextReload]_vars

-----------------------------------------------------------------------------
(* The repeated session: pastes are fetched and scanned again and again    *)
(* by the one scanner of the session                                       *)

MaxSessionDocs == 1

\* bodies of single pastes
SessionTexts == {<<>>, <<"x">>, <<"a">>, <<"A", "a">>}

SessionDocuments ==
    {d \in Documents : d.id \in {"p2", "p6", "p7"}}

SessionDocumentLists == SeqsUpTo(SessionDocuments, MaxSessionDocs)

AfterSetup == {"ready", "scanned", "rescanned", "batched", "rebatched"}

\* scrape_custom_paste(url): the body of one paste arrives
FetchPaste ==
    /\ pc \in AfterSetup
    /\ \E t \in SessionTexts : text' = t
    /\ pc' = "fetched_paste"
    /\ UNCHANGED <<keywords, case_sensitive, csv_content, texts, result,
                   error>>

\* scrape_pastebin_recent(limit): a list of records arrives
FetchPastes ==
    /\ pc \in AfterSetup
    /\ \E ts \in SessionDocumentLists : texts' = ts
    /\ pc' = "fetched_pastes"
    /\ UNCHANGED <<keywords, case_sensitive, csv_content, text, result, error>>

\* scanner.scan_text(text), the first time for this text and then once more
RunScanText ==
    /\ pc \in {"fetched_paste", "scanned"}
    /\ LET call == ScanTextCall(text, keywords, case_sensitive)
       IN  /\ result' = call.result
           /\ keywords' = call.keywords
           /\ case_sensitive' = call.case_sensitive
           /\ text' = call.text
    /\ pc' = IF pc = "fetched_paste" THEN "scanned" ELSE "rescanned"
    /\ UNCHANGED <<csv_content, texts, error>>

\* scanner.scan_multiple_texts(texts), the first time for this list and then
\* once more
RunScanMultipleTexts ==
    /\ pc \in {"fetched_pastes", "batched"}
    /\ LET call == ScanMultipleTextsCall(texts, keywords, case_sensitive)
       IN  /\ result' = call.result
           /\ keywords' = call.keywords
           /\ case_sensitive' = call.case_sensitive
           /\ texts' = call.texts
    /\ pc' = IF pc = "fetched_pastes" THEN "batched" ELSE "rebatched"
    /\ UNCHANGED <<csv_content, text, error>>

NextRepeat ==
    \/ LoadKeywordsFromList
    \/ SetCaseSensitive
    \/ FetchPaste
    \/ FetchPastes
    \/ RunScanText
    \/ RunScanMultipleTexts

SpecRepeat == Init /\ [][NextRepeat]_vars

-----------------------------------------------------------------------------
(* Properties of scan_text                                                 *)

Range(f) == {f[i] : i \in DOMAIN f}

\* the match_details entries of the result that carry keyword k
DetailsOf(k) ==
    {i \in DOMAIN result.match_details : result.match_details[i].keyword = k}

\* C1: after any scan, no keyword string has more than 3 match_details
\* entries, also when the keyword sequence repeats a keyword.
C1_AtMostThreeDetailsPerKeyword ==
    pc = "scanned" =>
        \A k \in Range(keywords) : Cardinality(DetailsOf(k)) <= 3

\* C3: every result has match_count = len(matched_keywords),
\* total_occurrences >= match_count, and matches_found exactly when
\* match_count > 0.
C3_ResultCountersAgree ==
    pc = "scanned" =>
        /\ result.match_count = Len(result.matched_keywords)
        /\ result.total_occurrences >= result.match_count
        /\ result.matches_found <=> (result.match_count > 0)

\* C3 witness: a scan whose keyword sequence repeats a matching keyword, so
\* that the occurrences outnumber the matched keywords.
C3_Witness ==
    /\ pc = "scanned"
    /\ Len(keywords) = 2 /\ keywords[1] = keywords[2]
    /\ result.match_count = 1
    /\ result.total_occurrences > 2

\* the offsets at which keyword k occurs in t under the case rule: the text
\* there equals k, after folding both when the search is case-insensitive
Fold(s) == [i \in 1..Len(s) |-> LowerChar(s[i])]

UnderRule(s, cs) == IF cs THEN s ELSE Fold(s)

Occurrences(t, k, cs) ==
    LET tt == UnderRule(t, cs)
        kk == UnderRule(k, cs)
    IN  {p \in 0..(Len(t) - Len(k)) : SubSeq(tt, p + 1, p + Len(k)) = kk}

\* occurrences at p and q overlap
Overlap(p, q, width) == p < q + width /\ q < p + width

\* the number of non-overlapping occurrences of k in t, taken left to right:
\* the size of the one set of occurrences that holds an occurrence exactly
\* when no occurrence before it in the set overlaps it
CountOccurrences(t, k, cs) ==
    LET occ == Occurrences(t, k, cs)
        taken == CHOOSE S \in SUBSET occ :
                    \A p \in occ :
                        p \in S <=> \A q \in S : ~(q < p /\ Overlap(p, q, Len(k)))
    IN  Cardinality(taken)

RECURSIVE SumCounts(_, _, _)
SumCounts(t, ks, cs) ==
    IF ks = <<>> THEN 0
    ELSE CountOccurrences(t, Head(ks), cs) + SumCounts(t, Tail(ks), cs)

\* C5: total_occurrences is the sum over the entries of the keyword sequence
\* of the non-overlapping occurrences of that keyword in the text; the cap of
\* 3 details per keyword does not limit it.
C5_TotalIsSumOfOccurrences ==
    pc = "scanned" =>
        result.total_occurrences = SumCounts(text, keywords, case_sensitive)

\* C5 witness: one keyword with more occurrences than the cap, all counted,
\* 3 shown.
C5_Witness ==
    /\ pc = "scanned"
    /\ Len(keywords) = 1
    /\ result.total_occurrences > MaxDetails
    /\ Len(result.match_details) = 3

\* a one-keyword scan of a non-empty text in which the keyword occurs at
\* exactly one offset
OneOccurrence ==
    /\ pc = "scanned"
    /\ text # <<>>
    /\ Len(keywords) = 1
    /\ Cardinality(Occurrences(text, keywords[1], case_sensitive)) = 1

\* C6: with one keyword that occurs exactly once in a non-empty text, the
\* result reports one matched keyword, one occurrence and one detail, whose
\* position is the 0-based offset of the occurrence in the text.
C6_SingleOccurrence ==
    OneOccurrence =>
        /\ result.matches_found
        /\ result.match_count = 1
        /\ result.total_occurrences = 1
        /\ Len(result.match_details) = 1
        /\ result.match_details[1].position \in
               Occurrences(text, keywords[1], case_sensitive)

\* C6 witness: the single occurrence lies beyond the first ContextChars
\* characters, so its offset differs from its place in the context.
C6_Witness ==
    /\ OneOccurrence
    /\ result.match_details[1].position > ContextChars

\* C7: with case_sensitive false a keyword is matched whenever the text
\* contains it up to letter case; with case_sensitive true only when the text
\* contains it with identical case.
C7_CaseRule ==
    pc = "scanned" =>
        \A k \in Range(keywords) :
            (k \in Range(result.matched_keywords)) <=>
                (Occurrences(text, k, case_sensitive) # {})

\* C7 witness: a case-sensitive scan of a text that contains the keyword only
\* in another case reports no match.
C7_Witness ==
    /\ pc = "scanned"
    /\ case_sensitive
    /\ keywords = << <<"a">> >>
    /\ text = <<"A">>
    /\ ~result.matches_found

\* C7 witness of the other half: the same pair matches case-insensitively.
C7_WitnessInsensitive ==
    /\ pc = "scanned"
    /\ ~case_sensitive
    /\ keywords = << <<"a">> >>
    /\ text = <<"A">>
    /\ result.matches_found

\* C8: a scan of an empty text, or with an empty keyword list, returns the
\* zero-value result and raises nothing.
C8_ZeroValueResult ==
    (pc = "scanned" /\ (text = <<>> \/ keywords = <<>>)) =>
        /\ result.matches_found = FALSE
        /\ result.matched_keywords = <<>>
        /\ result.match_count = 0
        /\ result.total_occurrences = 0
        /\ result.match_details = <<>>
        /\ error = NoError

\* C8 witness: a non-empty text scanned with no keywords.
C8_Witness ==
    /\ pc = "scanned"
    /\ keywords = <<>>
    /\ Len(text) > ContextChars

\* C10: every context is the cleaned slice of the text from
\* max(0, start - 50) to min(len, end + 50), both within 0..len, and holds no
\* newline.
C10_ContextClamped ==
    pc = "scanned" =>
        \A i \in DOMAIN result.match_details :
            LET d == result.match_details[i]
                mend == d.position + Len(d.keyword)
                lo == IF d.position - 50 > 0 THEN d.position - 50 ELSE 0
                hi == IF mend + 50 < Len(text) THEN mend + 50 ELSE Len(text)
                window == SubSeq(text, lo + 1, hi)
            IN  /\ ContextStart(d.position) = lo
                /\ ContextEnd(text, mend) = hi
                /\ 0 <= lo /\ lo <= hi /\ hi <= Len(text)
                /\ d.context = Ellipsis \o Strip(ReplaceNewlines(window)) \o Ellipsis
                /\ \A j \in DOMAIN d.context : d.context[j] # NL

\* C10 witness: a match within ContextChars of the start of a text that goes
\* on for more than ContextChars after it and holds newlines.
C10_Witness ==
    /\ pc = "scanned"
    /\ result.match_details # <<>>
    /\ result.match_details[1].position < ContextChars
    /\ Len(text) > result.match_details[1].position + 1 + ContextChars
    /\ \E j \in DOMAIN text : text[j] = NL

-----------------------------------------------------------------------------
(* Properties of scan_multiple_texts                                       *)

ScanFields ==
    {"matches_found", "matched_keywords", "match_count", "total_occurrences",
     "match_details"}

\* the scan of document i of the batch
ScanOf(i) == ScanText(texts[i].content, keywords, case_sensitive)

\* the documents of the batch that are to appear in the output: no error
\* key, a non-empty content, and a scan that finds a match
Reported ==
    {i \in DOMAIN texts :
        /\ "error" \notin DOMAIN texts[i]
        /\ "content" \in DOMAIN texts[i]
        /\ texts[i].content # <<>>
        /\ ScanOf(i).matches_found}

\* the j-th reported document, in input order
NthReported(j) ==
    CHOOSE i \in Reported : Cardinality({k \in Reported : k <= i}) = j

-----------------------------------------------------------------------------
(* Properties of load_keywords_from_csv                                    *)

\* the first field of every record of the input, the first record included
FirstCells(content) ==
    LET records == RecordLines(content)
    IN  [i \in 1..Len(records) |-> records[i][1]]

\* C2: the loader returns every non-empty trimmed first-column cell of the
\* input, the one on the first row included, in input order and with
\* duplicates kept.
C2_WholeFirstColumn ==
    pc = "loaded" =>
        /\ result = StripAll(FirstCells(csv_content))
        /\ keywords = result

\* C2 on the input of the claim: three lines kw1, kw2, kw1 give 3 keywords.
C2_ThreeLines ==
    (pc = "loaded" /\ csv_content = <<"a", NL, "b", NL, "a">>) =>
        result = << <<"a">>, <<"b">>, <<"a">> >>

\* the frame read from the uploaded content, when the content is not blank
\* and the read succeeds
Frame == ReadCsv(csv_content)

HasFrame == ~IsBlank(csv_content) /\ Frame.kind = "frame"

\* the four failure conditions of the loader
InputBlank == IsBlank(csv_content)

ZeroColumns == ~IsBlank(csv_content) /\ RecordLines(csv_content) = <<>>

ZeroRows == HasFrame /\ Frame.columns > 0 /\ Frame.rows = <<>>

ZeroKeywords ==
    /\ HasFrame /\ Frame.columns > 0 /\ Frame.rows # <<>>
    /\ \A i \in 1..Len(Frame.rows) :
           Frame.rows[i][1] = NaN \/ Strip(Frame.rows[i][1]) = <<>>

\* C9: the loader raises in each of the four conditions -- blank input, no
\* data rows, no columns, no keyword left after trimming -- and the message
\* raised in one condition is raised in none of the other three.
C9_FourDistinctMessages ==
    pc \in {"loaded", "load_failed"} =>
        /\ (InputBlank \/ ZeroColumns \/ ZeroRows \/ ZeroKeywords) =>
               (pc = "load_failed" /\ error # NoError)
        /\ InputBlank => error = MsgEmpty
        /\ ZeroColumns => error = MsgEmptyData
        /\ ZeroRows => error = MsgNoData
        /\ ZeroKeywords => error = MsgNoValid
        /\ Cardinality({MsgEmpty, MsgEmptyData, MsgNoData, MsgNoValid}) = 4

\* C9 witness: a file that holds only a byte order mark has no columns, and
\* the load fails with the message of the EmptyDataError handler.
C9_Witness ==
    /\ pc = "load_failed"
    /\ ZeroColumns
    /\ error = MsgEmptyData

-----------------------------------------------------------------------------
(* Order of matched_keywords                                               *)

\* a comes strictly before b in lexicographic order of the code points: at
\* the first place where they differ a has the smaller character, or a ends
\* there and b goes on
LexBefore(a, b) ==
    \E n \in 0..Len(a) :
        /\ n <= Len(b)
        /\ \A i \in 1..n : a[i] = b[i]
        /\ IF n = Len(a) THEN n < Len(b)
           ELSE n < Len(b) /\ Ord(a[n + 1]) < Ord(b[n + 1])

\* C11: matched_keywords is strictly ascending in the lexicographic order of
\* the keyword strings as given (not case-folded), and holds each keyword
\* that occurs in the text exactly once, however often the keyword sequence
\* lists it.
C11_MatchedKeywordsSorted ==
    pc = "scanned" =>
        LET mk == result.matched_keywords
        IN  /\ \A i \in DOMAIN mk : \A j \in DOMAIN mk :
                   i < j => LexBefore(mk[i], mk[j])
            /\ Range(mk) =
                   {k \in Range(keywords) :
                       Occurrences(text, k, case_sensitive) # {}}

\* C11 witness: the keywords are entered as a, A, both occur in the text,
\* and matched_keywords lists them as A, a.
C11_Witness ==
    /\ pc = "scanned"
    /\ keywords = << <<"a">>, <<"A">> >>
    /\ result.matched_keywords = << <<"A">>, <<"a">> >>

\* C11 witness of the repeated keyword: listed twice, matched once.
C11_WitnessRepeated ==
    /\ pc = "scanned"
    /\ keywords = << <<"a">>, <<"a">> >>
    /\ result.matched_keywords = << <<"a">> >>

-----------------------------------------------------------------------------
(* The scans leave the scanner and their inputs alone                      *)

\* C12: a call of scan_text or scan_multiple_texts, after whatever calls
\* came before it, leaves the keyword list, the case_sensitive flag and the
\* text or records it was given as they were, and the second of two scans of
\* the same input under the same configuration returns what the first did.
C12_ScansHaveNoSideEffects ==
    [][pc' \in {"scanned", "rescanned", "batched", "rebatched"} =>
           /\ keywords' = keywords
           /\ case_sensitive' = case_sensitive
           /\ text' = text
           /\ texts' = texts
           /\ pc' \in {"rescanned", "rebatched"} => result' = result]_vars

\* C12 witness: after a batch scan that reported a record, a paste is scanned
\* twice by a scanner that ignores case and holds an upper-case keyword; the
\* keyword is still upper-case and the second scan has matched.
C12_Witness ==
    /\ pc = "rescanned"
    /\ ~case_sensitive
    /\ keywords = << <<"A">> >>
    /\ text = <<"A", "a">>
    /\ result.matches_found
    /\ \E i \in DOMAIN texts : ~Skipped(texts[i])

\* C12 witness of the batch: the same list scanned twice, a record reported.
C12_WitnessBatch ==
    /\ pc = "rebatched"
    /\ result # <<>>
    /\ Len(texts) = 1

-----------------------------------------------------------------------------
(* A failed load and the keywords held before it                           *)

\* C13: whenever load_keywords_from_csv raises, whatever the failure, the
\* scanner holds the keyword list it held before the call.
C13_FailedLoadKeepsKeywords ==
    [][(pc = "uploaded" /\ pc' = "load_failed") => keywords' = keywords]_vars

=============================================================================
